---- MODULE Spec2Model ----
(***************************************************************************)
(* A model of the log-structured key-value engine of the kv crate:         *)
(* FileIo (byte channel), DataFile (segment), Entry (record codec),        *)
(* BTree (index) and Engine (put / get / rotation).                        *)
(***************************************************************************)
EXTENDS Integers, Sequences, FiniteSets, TLC

(***************************************************************************)
(* Bounds of the exploration.                                              *)
(***************************************************************************)
\* number of Engine::put calls explored in one behaviour
MaxPuts == 2
\* number of environment faults (failed or short I/O, rejected index update)
\* explored in one behaviour
MaxFaults == 1
\* number of BTree::put and BTree::del calls explored in one behaviour of
\* the index on its own
MaxIndexOps == 3
\* number of threads that call the engine concurrently
NThreads == 3
\* number of engine calls the threads start in one behaviour
MaxCalls == 3
\* the writes to a FileIo of its own
MaxWrites == 3
\* the longest duration, in ms, given to timeout by a caller of its own
MaxMillis == 5
\* the calls of Node::start
MaxTerm == 2

(***************************************************************************)
(* Inputs.                                                                 *)
(***************************************************************************)
\* b"alpha"
Alpha == <<97, 108, 112, 104, 97>>
\* 32 bytes "0123456789..." : with Alpha the record encodes to 40 bytes
Digits32 == [i \in 1..32 |-> 48 + ((i - 1) % 10)]

Keys == {<<>>, <<1>>, Alpha}
Vals == {<<7>>, Digits32}

\* the largest length a u8 length byte holds
U8Max == 255
\* n bytes 1, 2, 3, ...
Bytes(n) == [i \in 1..n |-> i % 256]

\* the keys, values and types given to Entry::encode : lengths 0, 1, 2, 5,
\* 32, 255 and, beyond the length byte, 256
CodecKeys == {<<>>, <<1>>, Alpha, Bytes(U8Max), Bytes(U8Max + 1)}
CodecVals == {<<>>, <<7>>, <<2, 1>>, Digits32, Bytes(U8Max), Bytes(U8Max + 1)}
EntryTypes == {"Normal", "Deleted"}

\* buffers given to Entry::decode besides encoded entries : too short for
\* the length bytes, shorter than the lengths declare, with a tag other than
\* 1 and 2, and well-formed ones, one of them followed by further bytes
Buffers ==
    {<<>>, <<1>>, <<1, 1>>, <<1, 1, 5>>, <<1, 1, 5, 6>>, <<2, 0, 5>>,
     <<1, 1, 5, 6, 0>>, <<1, 1, 5, 6, 3>>, <<0, 0, 9>>, <<0, 1, 1, 255>>,
     <<1, 1, 5, 6, 1>>, <<0, 0, 2>>, <<1, 1, 5, 6, 2, 9, 9>>}

\* b"key1", b"key2"
Key1 == <<107, 101, 121, 49>>
Key2 == <<107, 101, 121, 50>>
\* the keys and positions given to the BTree : those of its tests
IndexKeys == {<<>>, Key1, Key2}
Positions == {[file_id |-> 1, offset |-> 10], [file_id |-> 2, offset |-> 20]}

\* the key of the concurrent calls and the value of the n-th call started :
\* a record of 6 bytes, so that the second append to a file of 10 rotates
KeyC == <<1>>
ValOf(n) == <<n, n>>

\* DataFileConfig::data_file_size values explored
DataFileSizes == {10, 64}

\* DataFileConfig::data_path_dir, a path without a file-name component
NoName == -1
DataPathDir == [dir |-> "data", name |-> NoName]

(***************************************************************************)
(* err.rs                                                                  *)
(***************************************************************************)
ErrCode == {"AcquireReadLockFailed", "AcquireWriteLockFailed", "EmptyKeyError",
            "KeyNotFoundError", "IndexUpdateFailed", "OpenDataFileFailed",
            "ReadDataFileFailed", "SyncDataFileFailed", "WriteDataFileFailed"}

(***************************************************************************)
(* entry/mod.rs : the record codec                                         *)
(***************************************************************************)
\* the discriminants an enum has when none is written : 0 and 1
EntryTypeTagDefault(typ) == IF typ = "Normal" THEN 0 ELSE 1

\* EntryType : Normal = 1, Deleted = 2
EntryTypeTag(typ) == IF typ = "Normal" THEN 1 ELSE 2

NoEntry == [key |-> <<>>, val |-> <<>>, typ |-> "None"]
NoPos == [file_id |-> -1, offset |-> -1]

\* a cast that saturates at the largest u8
AsU8Saturating(n) == IF n > U8Max THEN U8Max ELSE n

\* `as u8` keeps the low 8 bits of a length
AsU8(n) == n % 256

Encode(entry) ==
    <<AsU8(Len(entry.key)), AsU8(Len(entry.val))>>
        \o entry.key \o entry.val \o <<EntryTypeTag(entry.typ)>>

\* the value sliced from the start of the key
DecodeValAtKey(encoded) ==
    IF Len(encoded) < 2 THEN [panic |-> TRUE, entry |-> NoEntry]
    ELSE LET key_len == encoded[1]
             val_len == encoded[2]
         IN IF Len(encoded) < 2 + key_len + val_len + 1
            THEN [panic |-> TRUE, entry |-> NoEntry]
            ELSE LET tag == encoded[2 + key_len + val_len + 1]
                 IN IF tag \notin {1, 2}
                    THEN [panic |-> TRUE, entry |-> NoEntry]
                    ELSE [panic |-> FALSE,
                          entry |-> [key |-> SubSeq(encoded, 3, 2 + key_len),
                                     val |-> SubSeq(encoded, 3, 2 + val_len),
                                     typ |-> IF tag = 1 THEN "Normal"
                                             ELSE "Deleted"]]

\* Entry::decode: an index or a slice out of range, and an unknown tag, panic
Decode(encoded) ==
    IF Len(encoded) < 2 THEN [panic |-> TRUE, entry |-> NoEntry]
    ELSE LET key_len == encoded[1]
             val_len == encoded[2]
         IN IF Len(encoded) < 2 + key_len + val_len + 1
            THEN [panic |-> TRUE, entry |-> NoEntry]
            ELSE LET tag == encoded[2 + key_len + val_len + 1]
                 IN IF tag \notin {1, 2}
                    THEN [panic |-> TRUE, entry |-> NoEntry]
                    ELSE [panic |-> FALSE,
                          entry |-> [key |-> SubSeq(encoded, 3, 2 + key_len),
                                     val |-> SubSeq(encoded, 3 + key_len,
                                                    2 + key_len + val_len),
                                     typ |-> IF tag = 1 THEN "Normal"
                                             ELSE "Deleted"]]

(***************************************************************************)
(* State.                                                                  *)
(***************************************************************************)
VARIABLES
    config,     \* Engine.config : DataFileConfig
    active,     \* Engine.active_data_file : DataFile
    older,      \* Engine.older_data_files : id -> DataFile
    index,      \* Engine.indices : key -> EntryPos
    fs,         \* the file system : path -> bytes of the file at that path
    created,    \* ids of the DataFile instances created so far, by instance
    latest,     \* key -> the most recent put on that key : its value, whether
                \* it returned Ok (ok) and wrote the whole record (full), the
                \* pointer it returned, and the same of the put before it
    last,       \* the most recent engine call, its outcome and its steps
    written,    \* the keys for which a put has returned Ok
    nputs,      \* number of put calls so far
    faults,     \* number of environment faults so far
    codec,      \* the most recent call of Entry::encode or Entry::decode
    bt,         \* a BTree used on its own : its map, the state of its lock,
                \* the calls made on it and the result of the last one
    conc,       \* the threads calling the engine concurrently, the holders of
                \* its three locks and the number of calls started
    fio,        \* a FileIo used on its own : the bytes of its file, the
                \* writes made and the result of the last call
    raft        \* a raft Node, its election timer and the last call

vars == <<config, active, older, index, fs, created, latest, last, written,
          nputs, faults, codec, bt, conc, fio, raft>>

(***************************************************************************)
(* fio/file_io.rs : the byte channel.  A FileIo is an open file on a path; *)
(* the files are held in a map from path to contents.                      *)
(***************************************************************************)
\* the result of a channel write that does not succeed
WriteFails == -1

\* FileIo::new : OpenOptions create + read + append; a missing file is
\* created empty, an existing one is left as it is
FileIoNew(files, file_name) ==
    IF file_name \in DOMAIN files THEN files
    ELSE [p \in DOMAIN files \cup {file_name} |->
              IF p = file_name THEN <<>> ELSE files[p]]

\* FileIo::write : File::write on an append-mode file puts the first n bytes
\* of buf at the end of the file and returns n
FileIoWrite(files, file_name, buf, n) ==
    [files EXCEPT ![file_name] = @ \o SubSeq(buf, 1, n)]

\* a read that does not seek
FileIoReadFromStart(files, file_name, offset, len) ==
    LET size == Len(files[file_name])
        upto == IF len < size THEN len ELSE size
    IN SubSeq(files[file_name], 1, upto)

\* FileIo::read : seek to offset, then read at most len bytes
FileIoRead(files, file_name, offset, len) ==
    LET size == Len(files[file_name])
        upto == IF offset + len < size THEN offset + len ELSE size
    IN SubSeq(files[file_name], offset + 1, upto)

(***************************************************************************)
(* entry/data_file.rs : the segment                                        *)
(***************************************************************************)
\* the path DataFile::new hands to FileIo::new
ChannelPath(path, id) == path

\* DataFile::new ; inst identifies the instance
DataFileNew(path, id, inst) ==
    [id |-> id, offset |-> 0, path |-> ChannelPath(path, id), inst |-> inst]

\* a DataFile::write that sets the cursor to the count instead of adding it
DataFileWriteOffsetAssign(offset, n) ==
    IF n = WriteFails THEN offset ELSE n

\* DataFile::write : the cursor after a channel write with result n
DataFileWriteOffset(offset, n) ==
    IF n = WriteFails THEN offset ELSE offset + n

\* DataFile::write : [code, size, df, files]
DataFileWrite(df, files, data, n) ==
    IF n = WriteFails
    THEN [code |-> "WriteDataFileFailed", size |-> 0,
          df |-> [df EXCEPT !.offset = DataFileWriteOffset(df.offset, n)],
          files |-> files]
    ELSE [code |-> "Ok", size |-> n,
          df |-> [df EXCEPT !.offset = DataFileWriteOffset(df.offset, n)],
          files |-> FileIoWrite(files, df.path, data, n)]

\* DataFile::read(offset) : the bytes of the segment's channel from offset on
DataFileRead(df, files, offset) ==
    FileIoRead(files, df.path, offset, Len(files[df.path]))

(***************************************************************************)
(* index/btree.rs : the index                                              *)
(***************************************************************************)
\* an insert that keeps the position a key already has
BTreePutIfAbsent(tree, key, pos) ==
    [k \in DOMAIN tree \cup {key} |->
        IF k \in DOMAIN tree THEN tree[k] ELSE pos]

BTreePut(tree, key, pos) ==
    [k \in DOMAIN tree \cup {key} |-> IF k = key THEN pos ELSE tree[k]]

\* a lookup that answers an absent key with the position of another key
BTreeGetNearest(tree, key) ==
    IF key \in DOMAIN tree THEN tree[key]
    ELSE IF DOMAIN tree # {} THEN tree[CHOOSE k \in DOMAIN tree : TRUE]
    ELSE NoPos

BTreeGet(tree, key) ==
    IF key \in DOMAIN tree THEN tree[key] ELSE NoPos

\* BTree::del answering true whatever the map held
BTreeDelResTrue(tree, key) == TRUE

\* btree.rs:52-53 : remove_res.is_some()
BTreeDelRes(tree, key) == key \in DOMAIN tree

\* btree.rs:52 : write_guard.remove(&key)
BTreeDel(tree, key) == [k \in DOMAIN tree \ {key} |-> tree[k]]

(***************************************************************************)
(* db.rs : the engine                                                      *)
(***************************************************************************)
\* one step of an engine call, as recorded in last.events
Ev(ev, id, inst, at, n) == [ev |-> ev, id |-> id, inst |-> inst, at |-> at, n |-> n]

Log(s, e) == [s EXCEPT !.events = Append(@, e)]

\* what the environment does to the I/O steps of one put
Nominal(len) ==
    [sync_old |-> TRUE, open_old |-> TRUE, open_new |-> TRUE, write |-> len,
     sync |-> TRUE, index |-> TRUE]

\* byte counts of a short channel write of a buffer of len bytes
ShortCounts(len) == {1, len - 1}

\* the nominal environment and its variants with one fault
Envs(len) ==
    {Nominal(len),
     [Nominal(len) EXCEPT !.sync_old = FALSE],
     [Nominal(len) EXCEPT !.open_old = FALSE],
     [Nominal(len) EXCEPT !.open_new = FALSE],
     [Nominal(len) EXCEPT !.write = WriteFails],
     [Nominal(len) EXCEPT !.sync = FALSE],
     [Nominal(len) EXCEPT !.index = FALSE]}
    \cup {[Nominal(len) EXCEPT !.write = n] : n \in ShortCounts(len)}

\* a rotation test that also fires when the entry exactly fills the file
NeedsRotationAtLimit(offset, len, data_file_size) == offset + len >= data_file_size

\* db.rs:70 : the active file cannot hold the entry
NeedsRotation(offset, len, data_file_size) == offset + len > data_file_size

\* the one element of a singleton set; {f(x) : x \in {e}} evaluates e once
Only(S) == CHOOSE x \in S : TRUE

\* the segment id filed as the only older file
SealAlone(s, path, id) ==
    LET inst == Len(s.created) + 1
        data_file == DataFileNew(path, id, inst)
    IN [s EXCEPT !.fs = FileIoNew(s.fs, ChannelPath(path, id)),
                 !.created = Append(s.created, id),
                 !.older = [i \in {id} |-> data_file],
                 !.events = s.events \o <<Ev("sync", id, s.active.inst, s.active.offset, 0),
                                          Ev("open", id, inst, 0, 0),
                                          Ev("insert", id, inst, 0, 0)>>]

\* db.rs:73-82 : after the sync, re-open the segment of the active id and
\* file it in older_data_files
Seal(s, path, id) ==
    LET inst == Len(s.created) + 1
        data_file == DataFileNew(path, id, inst)
    IN [s EXCEPT !.fs = FileIoNew(s.fs, ChannelPath(path, id)),
                 !.created = Append(s.created, id),
                 !.older = [i \in DOMAIN s.older \cup {id} |->
                               IF i = id THEN data_file ELSE s.older[i]],
                 !.events = s.events \o <<Ev("sync", id, s.active.inst, s.active.offset, 0),
                                          Ev("open", id, inst, 0, 0),
                                          Ev("insert", id, inst, 0, 0)>>]

\* db.rs:85-87 : open the segment new_id and make it the active file
Install(s, path, new_id) ==
    LET inst == Len(s.created) + 1
    IN [s EXCEPT !.fs = FileIoNew(s.fs, ChannelPath(path, new_id)),
                 !.created = Append(s.created, new_id),
                 !.active = DataFileNew(path, new_id, inst),
                 !.events = s.events \o <<Ev("open", new_id, inst, 0, 0),
                                          Ev("install", new_id, inst, 0, 0)>>]

\* db.rs:71-87 : seal the active file and install a new one : [code, s]
Rotate(s, env) ==
    LET path == config.data_path_dir
        id == s.active.id
        new_id == id + 1
    IN IF ~env.sync_old
       THEN [code |-> "SyncDataFileFailed",
             s |-> Log(s, Ev("sync_failed", id, s.active.inst, s.active.offset, 0))]
       ELSE IF ~env.open_old
       THEN [code |-> "OpenDataFileFailed",
             s |-> [s EXCEPT !.events = s.events
                        \o <<Ev("sync", id, s.active.inst, s.active.offset, 0),
                             Ev("open_failed", id, 0, 0, 0)>>]]
       ELSE Only({IF ~env.open_new
                  THEN [code |-> "OpenDataFileFailed",
                        s |-> Log(s2, Ev("open_failed", new_id, 0, 0, 0))]
                  ELSE [code |-> "Ok", s |-> Install(s2, path, new_id)]
                  : s2 \in {Seal(s, path, id)}})

\* the active file never synced after a write
SyncAfterWriteNever(write_sync_strategy) == FALSE

\* db.rs:96 : the active file is synced after the write
SyncAfterWrite(write_sync_strategy) == write_sync_strategy

\* db.rs:90-103 : write the entry to the active file of r.s and sync it if
\* configured : [code, pos, s]
WriteEntry(r, encoded_entry, env) ==
    LET write_offset == r.s.active.offset
    IN Only({IF w.code # "Ok"
             THEN [code |-> w.code, pos |-> NoPos,
                   s |-> Log(r.s, Ev("write_failed", w.df.id, w.df.inst, write_offset, 0))]
             ELSE IF SyncAfterWrite(config.write_sync_strategy) /\ ~env.sync
             THEN [code |-> "SyncDataFileFailed", pos |-> NoPos,
                   s |-> [r.s EXCEPT !.active = w.df, !.fs = w.files,
                            !.events = r.s.events
                               \o <<Ev("write", w.df.id, w.df.inst, write_offset, w.size),
                                    Ev("sync_failed", w.df.id, w.df.inst, w.df.offset, 0)>>]]
             ELSE [code |-> "Ok",
                   pos |-> [file_id |-> w.df.id, offset |-> write_offset],
                   s |-> [r.s EXCEPT !.active = w.df, !.fs = w.files,
                            !.events = r.s.events
                               \o <<Ev("write", w.df.id, w.df.inst, write_offset, w.size)>>
                               \o IF SyncAfterWrite(config.write_sync_strategy)
                                  THEN <<Ev("sync", w.df.id, w.df.inst, w.df.offset, 0)>>
                                  ELSE <<>>]]
             : w \in {DataFileWrite(r.s.active, r.s.fs, encoded_entry, env.write)}})

\* the entry written although the rotation failed
AppendEntryAfterFailure(encoded_entry, env) ==
    LET s0 == [active |-> active, older |-> older, fs |-> fs,
               created |-> created, events |-> <<>>]
    IN Only({WriteEntry([code |-> "Ok", s |-> r.s], encoded_entry, env)
             : r \in {IF NeedsRotation(active.offset, Len(encoded_entry),
                                       config.data_file_size)
                      THEN Rotate(s0, env)
                      ELSE [code |-> "Ok", s |-> s0]}})

\* Engine::append_entry : [code, pos, s]
AppendEntry(encoded_entry, env) ==
    LET s0 == [active |-> active, older |-> older, fs |-> fs,
               created |-> created, events |-> <<>>]
    IN Only({IF r.code # "Ok"
             THEN [code |-> r.code, pos |-> NoPos, s |-> r.s]
             ELSE WriteEntry(r, encoded_entry, env)
             : r \in {IF NeedsRotation(active.offset, Len(encoded_entry),
                                       config.data_file_size)
                      THEN Rotate(s0, env)
                      ELSE [code |-> "Ok", s |-> s0]}})

\* the result of indices.put ignored
UpdateCodeOk(ok) == "Ok"

\* db.rs:41-51 : what put returns for the result of indices.put
UpdateCode(ok) == IF ok THEN "Ok" ELSE "IndexUpdateFailed"

\* db.rs:117-125 : what get returns for the result of indices.get, before it
\* reads any file
LookupCode(pos) == IF pos = NoPos THEN "KeyNotFoundError" ELSE "Ok"

\* the position put into the index although the update is reported as failed
PutEntryIndexed(key, encoded_entry, env) ==
    Only({IF a.code # "Ok"
          THEN [code |-> a.code, pos |-> NoPos, s |-> a.s, index |-> index,
                len |-> Len(encoded_entry)]
          ELSE [code |-> IF env.index THEN "Ok" ELSE "IndexUpdateFailed",
                pos |-> a.pos, s |-> a.s,
                index |-> BTreePut(index, key, a.pos),
                len |-> Len(encoded_entry)]
          : a \in {AppendEntry(encoded_entry, env)}})

\* db.rs:37-51 : append the entry, then put its position into the index
PutEntry(key, encoded_entry, env) ==
    Only({IF a.code # "Ok"
          THEN [code |-> a.code, pos |-> NoPos, s |-> a.s, index |-> index,
                len |-> Len(encoded_entry)]
          ELSE IF UpdateCode(env.index) # "Ok"
          THEN [code |-> UpdateCode(env.index), pos |-> a.pos, s |-> a.s,
                index |-> index, len |-> Len(encoded_entry)]
          ELSE [code |-> "Ok", pos |-> a.pos, s |-> a.s,
                index |-> BTreePut(index, key, a.pos),
                len |-> Len(encoded_entry)]
          : a \in {AppendEntry(encoded_entry, env)}})

\* the test for the empty key left out
IsEmptyNever(key) == FALSE

\* db.rs:24, db.rs:109 : key.is_empty()
IsEmpty(key) == key = <<>>

\* Engine::put up to its return : [code, pos, s, index, len]
PutOutcome(key, value, env) ==
    IF IsEmpty(key)
    THEN [code |-> "EmptyKeyError", pos |-> NoPos,
          s |-> [active |-> active, older |-> older, fs |-> fs,
                 created |-> created, events |-> <<>>],
          index |-> index, len |-> 0]
    ELSE Only({PutEntry(key, encoded_entry, env)
               : encoded_entry \in {Encode([key |-> key, val |-> value,
                                           typ |-> "Normal"])}})

\* Engine::put
Put(key, value, env) ==
    /\ nputs < MaxPuts
    /\ \E nominal \in {Nominal(Len(Encode([key |-> key, val |-> value,
                                           typ |-> "Normal"])))} :
       \E o \in {PutOutcome(key, value, env)} :
          /\ \/ env = nominal
             \/ /\ faults < MaxFaults
                /\ o # PutOutcome(key, value, nominal)
          /\ active' = o.s.active
          /\ older' = o.s.older
          /\ fs' = o.s.fs
          /\ created' = o.s.created
          /\ index' = o.index
          /\ latest' = [k \in DOMAIN latest \cup {key} |->
                           IF k = key
                           THEN [val |-> value, ok |-> o.code = "Ok",
                                 full |-> env.write = nominal.write,
                                 pos |-> o.pos,
                                 prev_ok |-> IF key \in DOMAIN latest
                                             THEN latest[key].ok /\ latest[key].full
                                             ELSE FALSE,
                                 prev_val |-> IF key \in DOMAIN latest
                                              THEN latest[key].val ELSE <<>>]
                           ELSE latest[k]]
          /\ last' = [op |-> "put", key |-> key, val |-> value, code |-> o.code,
                      entry |-> NoEntry, pos |-> o.pos, len |-> o.len,
                      events |-> o.s.events]
          /\ written' = IF o.code = "Ok" THEN written \cup {key} ELSE written
          /\ nputs' = nputs + 1
          /\ faults' = IF env = nominal THEN faults ELSE faults + 1
          /\ UNCHANGED <<config, codec, bt, conc, fio, raft>>

\* every id resolved to the active file
ResolveFileActive(id) == active

\* db.rs:135-146 : the file with this id, the active one or an older one
ResolveFile(id) == IF active.id = id THEN active ELSE older[id]

\* db.rs:135-157 : read the entry at pos from the active file or from the
\* older file with that id, and decode it : [code, entry, events]
ReadEntry(pos, read_ok) ==
    LET id == pos.file_id
    IN IF active.id # id /\ id \notin DOMAIN older
       THEN [code |-> "ReadDataFileFailed", entry |-> NoEntry,
             events |-> <<Ev("not_found", id, 0, pos.offset, 0)>>]
       ELSE Only({IF ~read_ok
                  THEN [code |-> "ReadDataFileFailed", entry |-> NoEntry,
                        events |-> <<Ev("read_failed", df.id, df.inst, pos.offset, 0)>>]
                  ELSE Only({IF d.panic
                             THEN [code |-> "Panic", entry |-> NoEntry,
                                   events |-> <<Ev("read", df.id, df.inst, pos.offset, 0)>>]
                             ELSE [code |-> "Ok", entry |-> d.entry,
                                   events |-> <<Ev("read", df.id, df.inst, pos.offset, 0)>>]
                             : d \in {Decode(DataFileRead(df, fs, pos.offset))}})
                  : df \in {ResolveFile(id)}})

\* Engine::get up to its return : [code, entry, events]
GetOutcome(key, read_ok) ==
    IF IsEmpty(key)
    THEN [code |-> "EmptyKeyError", entry |-> NoEntry, events |-> <<>>]
    ELSE IF LookupCode(BTreeGet(index, key)) # "Ok"
    THEN [code |-> LookupCode(BTreeGet(index, key)), entry |-> NoEntry,
          events |-> <<>>]
    ELSE ReadEntry(BTreeGet(index, key), read_ok)

\* Engine::get
Get(key, read_ok) ==
    \E o \in {GetOutcome(key, read_ok)} :
       /\ last' = [op |-> "get", key |-> key, val |-> <<>>, code |-> o.code,
                   entry |-> o.entry, pos |-> BTreeGet(index, key), len |-> 0,
                   events |-> o.events]
       /\ UNCHANGED <<config, active, older, index, fs, created, latest,
                      written, nputs, faults, codec, bt, conc, fio, raft>>

\* no call of the codec yet
NoCodec == [op |-> "none", entry |-> NoEntry, encoded |-> <<>>,
            panic |-> FALSE, decoded |-> NoEntry]

\* BTree::new : an empty map behind a healthy lock; no call yet
NoCall == [op |-> "new", key |-> <<>>, pos |-> NoPos, ok |-> TRUE, res |-> NoPos]
BTreeNew == [tree |-> [k \in {} |-> NoPos], poisoned |-> FALSE, log |-> <<>>,
             last |-> NoCall]

\* no thread has called the engine : the three locks are free
Unlocked == [writer |-> 0, readers |-> {}]
IdleThread == [pc |-> "idle", op |-> "none", val |-> <<>>, pos |-> NoPos,
               code |-> "Ok", entry |-> NoEntry, expect |-> <<>>,
               rotated |-> FALSE, write_offset |-> 0]
NoThreads == [thr |-> [t \in 1..NThreads |-> IdleThread],
              lock |-> [l \in {"active", "older", "index"} |-> Unlocked],
              calls |-> 0,
              indexed |-> <<>>]

\* file_io.rs:164, 201 : the file of a FileIo of its own, outside the engine
FioPath == [dir |-> "test.data", name |-> NoName]

NoFioCall == [op |-> "none", code |-> "Ok", buf |-> <<>>, offset |-> 0,
              len |-> 0, n |-> 0, data |-> <<>>]

\* FileIo::new on a path that holds no file; log lists the writes that
\* returned Ok : the buffer, the length of the file before, the count returned
NoFio == [files |-> FileIoNew([p \in {} |-> <<>>], FioPath),
          log |-> <<>>,
          last |-> NoFioCall]
\* no timeout task
NoTimer == [state |-> "none", millis |-> 0, clock |-> 0, sender |-> "none",
            by |-> "none"]

\* no call on a node or a timer yet
NoRaftCall == [op |-> "none", status |-> "none", res |-> FALSE]

\* node.rs:9-32 : no node; timer is a timeout task of a caller of its own,
\* election the one of Node::initial_election
NoRaft == [node |-> [status |-> "none", current_term |-> 0,
                     election_timeout |-> 0, peers |-> {}],
           fresh |-> FALSE,
           pc |-> "none",
           timer |-> NoTimer,
           election |-> NoTimer,
           last |-> NoRaftCall]

\* an engine on an empty directory, with the index ix : active segment 0,
\* nothing sealed
InitWith(ix) ==
    /\ config \in [data_path_dir : {DataPathDir},
                   data_file_size : DataFileSizes,
                   write_sync_strategy : BOOLEAN]
    /\ active = DataFileNew(DataPathDir, 0, 1)
    /\ older = [i \in {} |-> active]
    /\ index = ix
    /\ fs = FileIoNew([p \in {} |-> <<>>], ChannelPath(DataPathDir, 0))
    /\ created = <<0>>
    /\ latest = [k \in {} |-> [val |-> <<>>, ok |-> FALSE, full |-> FALSE,
                                pos |-> NoPos, prev_ok |-> FALSE,
                                prev_val |-> <<>>]]
    /\ last = [op |-> "init", key |-> <<>>, val |-> <<>>, code |-> "Ok",
               entry |-> NoEntry, pos |-> NoPos, len |-> 0, events |-> <<>>]
    /\ written = {}
    /\ nputs = 0
    /\ faults = 0
    /\ codec = NoCodec
    /\ bt = BTreeNew
    /\ conc = NoThreads
    /\ fio = NoFio
    /\ raft = NoRaft

\* the engine with nothing indexed
Init == InitWith([k \in {} |-> NoPos])

PutStep ==
    \E key \in Keys, value \in Vals :
        \E env \in Envs(Len(Encode([key |-> key, val |-> value, typ |-> "Normal"]))) :
            Put(key, value, env)

GetStep == \E key \in Keys, read_ok \in BOOLEAN : Get(key, read_ok)

Next == PutStep \/ GetStep

Spec == Init /\ [][Next]_vars

(***************************************************************************)
(* entry/mod.rs : the codec called on its own                              *)
(***************************************************************************)
engineVars == <<config, active, older, index, fs, created, latest, last,
                written, nputs, faults>>

\* Entry::encode on an entry
EntryEncode ==
    \E e \in [key : CodecKeys, val : CodecVals, typ : EntryTypes] :
        /\ codec' = [op |-> "encode", entry |-> e, encoded |-> Encode(e),
                     panic |-> FALSE, decoded |-> NoEntry]
        /\ UNCHANGED <<engineVars, bt, conc, fio, raft>>

\* Entry::decode on the bytes the last Entry::encode returned
EntryDecodeEncoded ==
    /\ codec.op = "encode"
    /\ \E d \in {Decode(codec.encoded)} :
          codec' = [op |-> "decode", entry |-> codec.entry,
                    encoded |-> codec.encoded, panic |-> d.panic,
                    decoded |-> d.entry]
    /\ UNCHANGED <<engineVars, bt, conc, fio, raft>>

\* Entry::decode on a buffer
EntryDecode ==
    \E buf \in Buffers :
        \E d \in {Decode(buf)} :
            /\ codec' = [op |-> "decode", entry |-> NoEntry, encoded |-> buf,
                         panic |-> d.panic, decoded |-> d.entry]
            /\ UNCHANGED <<engineVars, bt, conc, fio, raft>>

InitCodec ==
    /\ Init
    /\ config.data_file_size = 64
    /\ ~config.write_sync_strategy

NextCodec == EntryEncode \/ EntryDecodeEncoded \/ EntryDecode

SpecCodec == InitCodec /\ [][NextCodec]_vars

(***************************************************************************)
(* index/btree.rs : the BTree called on its own                            *)
(***************************************************************************)
\* the RwLock of the tree : an acquisition succeeds (lock_ok) only while the
\* lock is not poisoned, and a lock seen poisoned stays poisoned
LockResult(lock_ok) == lock_ok => ~bt.poisoned

\* a call of the BTree and what it returned
Call(op, key, pos, ok, res) ==
    [op |-> op, key |-> key, pos |-> pos, ok |-> ok, res |-> res]

\* BTree::put
IndexPut ==
    \E key \in IndexKeys, pos \in Positions, lock_ok \in BOOLEAN :
        \E c \in {Call("put", key, pos, lock_ok, NoPos)} :
            /\ Len(bt.log) < MaxIndexOps
            /\ LockResult(lock_ok)
            /\ bt' = [tree |-> IF lock_ok THEN BTreePut(bt.tree, key, pos)
                               ELSE bt.tree,
                      poisoned |-> ~lock_ok,
                      log |-> Append(bt.log, c),
                      last |-> c]
            /\ UNCHANGED <<engineVars, codec, conc, fio, raft>>

\* BTree::get
IndexGet ==
    \E key \in IndexKeys, lock_ok \in BOOLEAN :
        /\ LockResult(lock_ok)
        /\ bt' = [bt EXCEPT !.poisoned = ~lock_ok,
                            !.last = Call("get", key, NoPos, lock_ok,
                                          IF lock_ok THEN BTreeGet(bt.tree, key)
                                          ELSE NoPos)]
        /\ UNCHANGED <<engineVars, codec, conc, fio, raft>>

\* BTree::del
IndexDel ==
    \E key \in IndexKeys, lock_ok \in BOOLEAN :
        \E c \in {Call("del", key, NoPos,
                       lock_ok /\ BTreeDelRes(bt.tree, key), NoPos)} :
            /\ Len(bt.log) < MaxIndexOps
            /\ LockResult(lock_ok)
            /\ bt' = [tree |-> IF lock_ok THEN BTreeDel(bt.tree, key)
                               ELSE bt.tree,
                      poisoned |-> ~lock_ok,
                      log |-> Append(bt.log, c),
                      last |-> c]
            /\ UNCHANGED <<engineVars, codec, conc, fio, raft>>

InitBTree ==
    /\ Init
    /\ config.data_file_size = 64
    /\ ~config.write_sync_strategy

NextBTree == IndexPut \/ IndexGet \/ IndexDel

SpecBTree == InitBTree /\ [][NextBTree]_vars

\* db.rs:17 : the engine holds its index as a Box<dyn Indexer> and takes
\* whatever position Indexer::get returns; an index handed to the engine may
\* hold a position whose file id names no file of the engine
IndexerStates ==
    {[k \in {} |-> NoPos],
     [k \in {<<1>>} |-> [file_id |-> 2, offset |-> 0]]}

InitIndexer ==
    \E ix \in IndexerStates :
        /\ InitWith(ix)
        /\ config.data_file_size = 10
        /\ ~config.write_sync_strategy

SpecIndexer == InitIndexer /\ [][Next]_vars

(***************************************************************************)
(* Helpers of the properties.                                              *)
(***************************************************************************)
\* the segment instances the engine holds
Segs == {active} \cup {older[i] : i \in DOMAIN older}

Record(key, value) == Encode([key |-> key, val |-> value, typ |-> "Normal"])

\* buf occurs in the file at path p
InFile(files, p, buf) ==
    \E off \in 0..(Len(files[p]) - Len(buf)) :
        SubSeq(files[p], off + 1, off + Len(buf)) = buf

\* the most recent put on the key of the last call returned Ok after writing
\* its whole record
LatestPutWhole(k) == k \in DOMAIN latest /\ latest[k].ok /\ latest[k].full

\* the last call was a get whose read of the segment did not fail, in a run
\* without environment faults
GetRead == last.op = "get" /\ last.code # "ReadDataFileFailed" /\ faults = 0

\* the last call was a put that returned Ok after a rotation and a whole write
RotatingPut ==
    /\ last.op = "put" /\ last.code = "Ok"
    /\ \E i \in DOMAIN last.events : last.events[i].ev = "install"
    /\ \E i \in DOMAIN last.events :
          last.events[i].ev = "write" /\ last.events[i].n = last.len

(***************************************************************************)
(* Properties.                                                             *)
(***************************************************************************)
\* C1: a successful put(k, v) followed by get(k), with no put on k in
\* between, returns a record with key k and value v.  Stated for runs in
\* which no I/O step failed or was short and the index took every update.
C1_PutThenGet ==
    (GetRead /\ LatestPutWhole(last.key))
        => /\ last.code = "Ok"
           /\ last.entry.key = last.key
           /\ last.entry.val = latest[last.key].val

\* C2: after put(k, v1) and put(k, v2) both succeed in that order, get(k)
\* returns v2 and the record of v1 is still in the log.
C2_Overwrite ==
    (GetRead /\ LatestPutWhole(last.key) /\ latest[last.key].prev_ok)
        => /\ last.code = "Ok"
           /\ last.entry.val = latest[last.key].val
           /\ \E p \in DOMAIN fs :
                 InFile(fs, p, Record(last.key, latest[last.key].prev_val))

\* C3: once segments have been sealed, get on a key still returns the value of
\* its newest record and reads it from the segment the record was appended
\* to (segment 0 for the first key and segment 1 for the second in the
\* two-put scenario).
C3_RotationKeepsData ==
    (GetRead /\ LatestPutWhole(last.key) /\ DOMAIN older # {})
        => /\ last.code = "Ok"
           /\ last.entry = [key |-> last.key, val |-> latest[last.key].val,
                            typ |-> "Normal"]
           /\ Len(last.events) = 1
           /\ last.events[1].ev = "read"
           /\ last.events[1].id = latest[last.key].pos.file_id
           /\ last.events[1].at = latest[last.key].pos.offset

\* C4: a put that rotates from segment i leaves the new active segment with
\* id i + 1, writes at cursor 0, records the pointer (i + 1, 0), and the
\* bytes at offset 0 of segment i + 1 are the encoding of its record.
C4_RotationTarget ==
    RotatingPut
        => /\ last.events[1].ev = "sync"
           /\ active.id = last.events[1].id + 1
           /\ last.pos = [file_id |-> active.id, offset |-> 0]
           /\ \A i \in DOMAIN last.events :
                 last.events[i].ev = "write" => last.events[i].at = 0
           /\ FileIoRead(fs, active.path, 0, last.len)
                 = Record(last.key, last.val)

FileLen(files, p) == IF p \in DOMAIN files THEN Len(files[p]) ELSE 0

\* the step is a call of put with a non-empty key
PutCall == last'.op = "put" /\ nputs' = nputs + 1 /\ last'.key # <<>>

\* C5: a put rotates if and only if write_cursor + encoded_length is strictly
\* greater than the maximum segment size; otherwise (equality included) the
\* record is appended to the current active segment and the active id and
\* the sealed registry are unchanged.
C5_RotationCondition ==
    [][PutCall =>
        LET ev == last'.events
            over == active.offset + last'.len > config.data_file_size
            fired == ev # <<>> /\ ev[1].ev \in {"sync", "sync_failed"}
        IN /\ fired <=> over
           /\ (active'.id # active.id \/ older' # older) => over
           /\ (over /\ last'.code = "Ok")
                 => /\ active'.id = active.id + 1
                    /\ active.id \in DOMAIN older'
                    /\ active'.inst # active.inst
           /\ ~over
                 => /\ active'.id = active.id
                    /\ active'.inst = active.inst
                    /\ older' = older
                    /\ ev # <<>>
                    /\ ev[1].ev \in {"write", "write_failed"}
                    /\ ev[1].inst = active.inst
                    /\ ev[1].at = active.offset
                    /\ ev[1].ev = "write"
                          => fs'[active.path] = fs[active.path]
                                \o SubSeq(Record(last'.key, last'.val), 1, ev[1].n)
    ]_vars

\* a put whose record exactly fills the active segment was appended to it
C5_Witness ==
    /\ last.op = "put" /\ last.code = "Ok"
    /\ last.events[1].ev = "write"
    /\ last.events[1].at > 0
    /\ last.events[1].at + last.len = config.data_file_size
    /\ active.offset = config.data_file_size

\* C6: a rotation flushes the outgoing segment, then files that segment under
\* its id in the sealed registry, then installs a new segment with
\* id = old_id + 1 and cursor 0, then appends the pending record to the new
\* segment only: the outgoing segment receives no byte of it.
C6_RotationOrder ==
    [][RotatingPut' =>
        LET ev == last'.events
        IN /\ Len(ev) >= 6
           /\ ev[1].ev = "sync" /\ ev[1].id = active.id /\ ev[1].inst = active.inst
           /\ ev[2].ev = "open" /\ ev[2].id = active.id
           /\ ev[3].ev = "insert" /\ ev[3].id = active.id
           /\ ev[4].ev = "open" /\ ev[4].id = active.id + 1
           /\ ev[5].ev = "install" /\ ev[5].id = active.id + 1
           /\ ev[6].ev = "write" /\ ev[6].id = active.id + 1
           /\ ev[6].inst = ev[5].inst /\ ev[6].at = 0
           /\ active.id \in DOMAIN older'
           /\ older'[active.id].id = active.id
           /\ fs'[older'[active.id].path] = fs[active.path]
    ]_vars

\* C7: sealing is one-way (the segment accepting writes never has an id filed
\* in the sealed registry) and no two segment instances are ever created with
\* the same id.
C7_OneWayNoReuse ==
    /\ active.id \notin DOMAIN older
    /\ \A i, j \in DOMAIN created : i # j => created[i] # created[j]

\* C8: segments with distinct ids are backed by distinct files, each named by
\* the id of its segment, so that no two segments share a byte channel.
C8_DistinctFiles ==
    /\ \A s, t \in Segs : s.id # t.id => s.path # t.path
    /\ \A i \in DOMAIN older : older[i].path.name = i

\* C9: the write cursor of every segment equals the length of its backing
\* file, right after a rotation included.
C9_CursorIsFileLength ==
    \A s \in Segs : s.offset = FileLen(fs, s.path)

\* C10: a segment append whose channel write succeeds with count n grows the
\* cursor by exactly n and returns n; one whose channel write fails returns
\* the error and leaves the cursor unchanged; no cursor ever decreases.
C10_WriteCursor ==
    [][/\ (last'.op = "put" /\ nputs' = nputs + 1)
            => \A i \in DOMAIN last'.events :
                  LET e == last'.events[i]
                      before == IF e.inst = active.inst THEN active.offset ELSE 0
                  IN /\ e.ev = "write"
                        => /\ active'.inst = e.inst
                           /\ e.at = before
                           /\ active'.offset = before + e.n
                           /\ FileLen(fs', active'.path)
                                 = FileLen(fs, active'.path) + e.n
                     /\ e.ev = "write_failed"
                        => /\ active'.inst = e.inst
                           /\ active'.offset = before
                           /\ last'.code = "WriteDataFileFailed"
                           /\ fs' = fs
       /\ \A s \in Segs : \A t \in Segs' : s.inst = t.inst => t.offset >= s.offset
    ]_vars

\* a channel write failed on a segment that earlier writes had advanced
C10_Witness ==
    /\ last.op = "put" /\ last.code = "WriteDataFileFailed"
    /\ active.offset > 0
    /\ last.events[Len(last.events)].ev = "write_failed"

\* C11: in every reachable engine state, put with an empty key and get with an
\* empty key both fail with EmptyKeyError, and neither call appends bytes,
\* rotates a segment or changes the index.
C11_EmptyKey ==
    [][(last'.op \in {"put", "get"} /\ last'.key = <<>>)
          => /\ last'.code = "EmptyKeyError"
             /\ last'.events = <<>>
             /\ fs' = fs
             /\ active' = active
             /\ older' = older
             /\ index' = index
             /\ created' = created
    ]_vars

\* an empty key was rejected by an engine that holds sealed segments and
\* indexed keys
C11_Witness ==
    /\ last.op \in {"put", "get"} /\ last.key = <<>>
    /\ last.code = "EmptyKeyError"
    /\ DOMAIN older # {}
    /\ DOMAIN index # {}
    /\ active.offset > 0

\* C12: get on a non-empty key for which no put has ever succeeded fails with
\* KeyNotFoundError, in every reachable state and whatever other keys have
\* been written.
C12_MissingKey ==
    (last.op = "get" /\ last.key # <<>> /\ last.key \notin written)
        => /\ last.code = "KeyNotFoundError"
           /\ last.events = <<>>

\* the key of the get was put once and that put failed, while a put on
\* another key had succeeded
C12_Witness ==
    /\ last.op = "get" /\ last.key # <<>> /\ last.key \notin written
    /\ last.code = "KeyNotFoundError"
    /\ last.key \in DOMAIN latest
    /\ written # {}

\* a get that found a position in the index
GetResolved == last.op = "get" /\ last.key # <<>> /\ last.pos # NoPos

C14_IndexRejects ==
    [][(last'.op = "put" /\ nputs' = nputs + 1
            /\ last'.code = "IndexUpdateFailed")
          => /\ index' = index
             /\ \A k \in DOMAIN index' : index'[k] # last'.pos
             /\ \E i \in DOMAIN last'.events :
                   /\ last'.events[i].ev = "write"
                   /\ last'.events[i].n = last'.len
                   /\ last'.events[i].inst = active'.inst
                   /\ last'.pos = [file_id |-> active'.id,
                                   offset |-> last'.events[i].at]
                   /\ active'.offset = last'.events[i].at + last'.len
             /\ FileLen(fs', active'.path)
                   = FileLen(fs, active'.path) + last'.len
             /\ FileIoRead(fs', active'.path, FileLen(fs, active'.path),
                           last'.len)
                   = Record(last'.key, last'.val)
    ]_vars

\* the index rejected the update of a key it already holds, after the record
\* was appended behind earlier ones
C14_Witness ==
    /\ last.op = "put" /\ last.code = "IndexUpdateFailed"
    /\ last.key \in DOMAIN index
    /\ last.pos # NoPos /\ last.pos.offset > 0
    /\ active.offset = last.pos.offset + last.len

\* C15: with write_sync_strategy set, every put that returns Ok has synced
\* the active segment after appending its record and before returning; with
\* write_sync_strategy unset, a put that does not rotate syncs nothing.
C15_Durability ==
    [][PutCall =>
        LET ev == last'.events
            over == active.offset + last'.len > config.data_file_size
        IN /\ (config.write_sync_strategy /\ last'.code = "Ok")
                 => \E i \in DOMAIN ev :
                       /\ i < Len(ev)
                       /\ ev[i].ev = "write"
                       /\ ev[i].inst = active'.inst
                       /\ ev[Len(ev)].ev = "sync"
                       /\ ev[Len(ev)].inst = active'.inst
                       /\ ev[Len(ev)].at = ev[i].at + ev[i].n
           /\ (~config.write_sync_strategy /\ ~over)
                 => \A i \in DOMAIN ev : ev[i].ev \notin {"sync", "sync_failed"}
    ]_vars

\* a put that rotated and returned Ok with write_sync_strategy set : its last
\* step is the sync of the new active segment
C15_Witness ==
    /\ last.op = "put" /\ last.code = "Ok"
    /\ config.write_sync_strategy
    /\ Len(last.events) > 2
    /\ last.events[Len(last.events)].ev = "sync"
    /\ last.events[Len(last.events)].inst = active.inst
    /\ last.events[Len(last.events)].at = active.offset

\* Entry::decode was called on the encoding of codec.entry, whose key and
\* value lengths fit the length bytes
RoundTrip ==
    /\ codec.op = "decode"
    /\ codec.entry # NoEntry
    /\ Len(codec.entry.key) <= U8Max
    /\ Len(codec.entry.val) <= U8Max

\* C16: for every key and value whose lengths fit the one-byte length fields
\* (0..255) and every type in {Normal, Deleted}, Entry::decode of
\* Entry::encode of an entry yields the same key, value and type.
C16_RoundTrip ==
    RoundTrip
        => /\ ~codec.panic
           /\ codec.encoded = Encode(codec.entry)
           /\ codec.decoded.key = codec.entry.key
           /\ codec.decoded.val = codec.entry.val
           /\ codec.decoded.typ = codec.entry.typ

\* a Deleted entry with a 255-byte key and a 32-byte value came back whole
C16_Witness ==
    /\ RoundTrip
    /\ codec.entry = [key |-> Bytes(U8Max), val |-> Digits32, typ |-> "Deleted"]
    /\ codec.decoded = codec.entry

\* C17: for a key and value of lengths within 0..255, Entry::encode produces
\* exactly 3 + key_len + value_len bytes: byte 0 is key_len, byte 1 is
\* value_len, then the key bytes, then the value bytes, then one type tag
\* that is 1 for Normal and 2 for Deleted.
C17_WireLayout ==
    (/\ codec.op = "encode"
     /\ Len(codec.entry.key) <= U8Max
     /\ Len(codec.entry.val) <= U8Max)
        => LET kl == Len(codec.entry.key)
               vl == Len(codec.entry.val)
               b == codec.encoded
           IN /\ Len(b) = 3 + kl + vl
              /\ b[1] = kl
              /\ b[2] = vl
              /\ \A i \in 1..kl : b[2 + i] = codec.entry.key[i]
              /\ \A i \in 1..vl : b[2 + kl + i] = codec.entry.val[i]
              /\ codec.entry.typ = "Normal" => b[3 + kl + vl] = 1
              /\ codec.entry.typ = "Deleted" => b[3 + kl + vl] = 2

\* the encoding of a Normal entry with a 5-byte key and a 255-byte value
C17_Witness ==
    /\ codec.op = "encode"
    /\ codec.entry = [key |-> Alpha, val |-> Bytes(U8Max), typ |-> "Normal"]
    /\ Len(codec.encoded) = 263
    /\ codec.encoded[263] = 1

\* the buffer has no type tag 1 or 2 where its two length bytes put it
Malformed(buf) ==
    \/ Len(buf) < 2
    \/ Len(buf) < 3 + buf[1] + buf[2]
    \/ buf[3 + buf[1] + buf[2]] \notin {1, 2}

\* C18: decoding a malformed buffer returns an error value to the caller and
\* does not abort, both when the type tag is neither 1 nor 2 and when the
\* buffer is shorter than 3 + key_len + value_len as its first two bytes
\* declare.
C18_DecodeError ==
    (codec.op = "decode" /\ Malformed(codec.encoded)) => ~codec.panic

\* the position of the most recent put on key that returned true and that no
\* later del on key that returned true followed, read off the calls made
RECURSIVE LastPut(_, _)
LastPut(log, key) ==
    IF log = <<>> THEN NoPos
    ELSE LET c == log[Len(log)]
         IN IF c.key = key /\ c.ok
            THEN IF c.op = "put" THEN c.pos ELSE NoPos
            ELSE LastPut(SubSeq(log, 1, Len(log) - 1), key)

\* C19: BTree::put returns true for every key, the empty key included, when
\* the lock is healthy, and after any sequence of index operations
\* BTree::get(key) returns exactly the position of the most recent put on
\* that key that was not followed by a del on it, or none when there is no
\* such put; a key holds one position, replaced wholesale on overwrite.
C19_IndexPutGet ==
    ~bt.poisoned
        => /\ bt.last.op = "put" => bt.last.ok
           /\ bt.last.op = "get"
                 => bt.last.res = LastPut(bt.log, bt.last.key)
           /\ \A k \in IndexKeys : BTreeGet(bt.tree, k) = LastPut(bt.log, k)

\* get on the empty key after two puts on it with different positions and a
\* put on another key in between : it returns the position of the last put
C19_Witness ==
    /\ ~bt.poisoned
    /\ bt.last.op = "get" /\ bt.last.key = <<>>
    /\ Len(bt.log) = 3
    /\ bt.log[1].op = "put" /\ bt.log[1].key = <<>> /\ bt.log[1].ok
    /\ bt.log[2].op = "put" /\ bt.log[2].key = Key1
    /\ bt.log[3].op = "put" /\ bt.log[3].key = <<>> /\ bt.log[3].ok
    /\ bt.log[3].pos # bt.log[1].pos
    /\ bt.last.res = bt.log[3].pos

\* C20: BTree::del(key) returns true exactly when the key is present in the
\* index at the time of the call and false when it is absent; after it
\* returns true, get(key) returns none and the positions of all other keys
\* are unchanged; a second del on the same key returns false.
C20_IndexDel ==
    [][(bt'.last.op = "del" /\ Len(bt'.log) = Len(bt.log) + 1
            /\ ~bt'.poisoned)
          => LET key == bt'.last.key
             IN /\ bt'.last.ok <=> key \in DOMAIN bt.tree
                /\ bt'.last.ok <=> LastPut(bt.log, key) # NoPos
                /\ BTreeGet(bt'.tree, key) = NoPos
                /\ \A k \in IndexKeys \ {key} :
                      BTreeGet(bt'.tree, k) = BTreeGet(bt.tree, k)
                /\ ~bt'.last.ok => bt'.tree = bt.tree
                /\ (bt.last.op = "del" /\ bt.last.key = key) => ~bt'.last.ok
    ]_vars

\* a second del on a key, right after the del that removed it
C20_Witness ==
    /\ ~bt.poisoned
    /\ bt.last.op = "del" /\ ~bt.last.ok
    /\ Len(bt.log) >= 3
    /\ bt.log[Len(bt.log) - 2].op = "put"
    /\ bt.log[Len(bt.log) - 2].key = bt.last.key
    /\ bt.log[Len(bt.log) - 1].op = "del"
    /\ bt.log[Len(bt.log) - 1].key = bt.last.key
    /\ bt.log[Len(bt.log) - 1].ok

\* C21: when acquisition of the index lock fails, BTree::put and BTree::del
\* return false and BTree::get returns none, leaving the map unchanged; the
\* engine turns these results into IndexUpdateFailed for put and, for get on
\* a key that was successfully put, into the same KeyNotFoundError as for a
\* key never written.
C21_LockFailure ==
    [][(bt' # bt /\ bt'.poisoned)
          => /\ bt'.tree = bt.tree
             /\ ~bt'.last.ok
             /\ bt'.last.res = NoPos
             /\ bt'.last.op = "put"
                   => UpdateCode(bt'.last.ok) = "IndexUpdateFailed"
             /\ bt'.last.op = "get"
                   => /\ LookupCode(bt'.last.res) = "KeyNotFoundError"
                      /\ LookupCode(bt'.last.res)
                            = LookupCode(BTreeGet([k \in {} |-> NoPos],
                                                  bt'.last.key))
    ]_vars

\* get failed to take the lock on a key whose put had returned true : the
\* key is still in the map and get returns none
C21_Witness ==
    /\ bt.poisoned
    /\ bt.last.op = "get" /\ ~bt.last.ok
    /\ bt.last.res = NoPos
    /\ bt.last.key \in DOMAIN bt.tree
    /\ LastPut(bt.log, bt.last.key) # NoPos

(***************************************************************************)
(* db.rs : put and get called by several threads.  A step is what a call   *)
(* does between two lock operations; I/O is nominal.                       *)
(***************************************************************************)
CanRead(l) == conc.lock[l].writer = 0
\* RwLock::write with another writer inside let in
CanWriteBesideWriter(l) == conc.lock[l].readers = {}

\* RwLock::write with readers inside let in
CanWriteBesideReaders(l) == conc.lock[l].writer = 0

\* RwLock::write : no writer and no reader holds the lock
CanWrite(l) == conc.lock[l].writer = 0 /\ conc.lock[l].readers = {}

WithWriter(lock, l, t) == [lock EXCEPT ![l].writer = t]
WithReader(lock, l, t) == [lock EXCEPT ![l].readers = @ \cup {t}]
\* the guard of thread t on lock l dropped
Released(lock, l, t) ==
    [lock EXCEPT ![l].writer = IF @ = t THEN 0 ELSE @,
                 ![l].readers = @ \ {t}]

\* get taking the lock of older_data_files first
GetLocksOlderFirst == <<"older", "active">>

\* db.rs:131-132 : the locks get takes, in this order
GetLocks == <<"active", "older">>

\* the engine's files as the calls see them
Current == [active |-> active, older |-> older, fs |-> fs,
            created |-> created, events |-> <<>>]

\* db.rs:62 : the encoded entry of the put of thread t
EncodedOf(t) == Encode([typ |-> "Normal", key |-> KeyC, val |-> conc.thr[t].val])

ghostVars == <<latest, last, written, nputs, faults>>
otherVars == <<codec, bt, fio, raft>>

\* the threads are interchangeable : of those that have not called yet, the
\* one with the least number calls next
NextThread(t) ==
    conc.thr[t].pc = "idle" => \A u \in 1..(t - 1) : conc.thr[u].pc # "idle"

\* a thread calls put
CPutStart(t) ==
    /\ conc.thr[t].pc \in {"idle", "done"}
    /\ NextThread(t)
    /\ conc.calls < MaxCalls
    /\ conc' = [conc EXCEPT !.calls = @ + 1,
                            !.thr[t] = [IdleThread EXCEPT
                                           !.pc = "lock_active",
                                           !.op = "put",
                                           !.val = ValOf(conc.calls + 1)]]
    /\ UNCHANGED <<engineVars, otherVars>>

\* db.rs:66-70, 90 : take the write lock of the active file, then test
\* whether the file can hold the entry; if it can, read the writing offset
CPutLockActive(t) ==
    /\ conc.thr[t].pc = "lock_active"
    /\ CanWrite("active")
    /\ conc' = [conc EXCEPT
                  !.lock = WithWriter(@, "active", t),
                  !.thr[t].pc =
                      IF NeedsRotation(active.offset, Len(EncodedOf(t)),
                                       config.data_file_size)
                      THEN "lock_older" ELSE "write",
                  !.thr[t].write_offset =
                      IF NeedsRotation(active.offset, Len(EncodedOf(t)),
                                       config.data_file_size)
                      THEN 0 ELSE active.offset]
    /\ UNCHANGED <<engineVars, otherVars>>

\* db.rs:73-79 : sync, then take the write lock of older_data_files
CPutLockOlder(t) ==
    /\ conc.thr[t].pc = "lock_older"
    /\ CanWrite("older")
    /\ conc' = [conc EXCEPT !.lock = WithWriter(@, "older", t),
                            !.thr[t].pc = "rotate"]
    /\ UNCHANGED <<engineVars, otherVars>>

\* db.rs:81-90 : seal, install, drop the guard of older_data_files and read
\* the writing offset of the new active file
CPutRotate(t) ==
    /\ conc.thr[t].pc = "rotate"
    /\ \E r \in {Rotate(Current, Nominal(Len(EncodedOf(t))))} :
          /\ active' = r.s.active
          /\ older' = r.s.older
          /\ fs' = r.s.fs
          /\ created' = r.s.created
          /\ conc' = [conc EXCEPT !.lock = Released(@, "older", t),
                                  !.thr[t].pc = "write",
                                  !.thr[t].rotated = TRUE,
                                  !.thr[t].write_offset = r.s.active.offset]
    /\ UNCHANGED <<config, index, ghostVars, otherVars>>

\* db.rs:100-103 : the position append_entry returns : the id of the active
\* file after the write and the writing offset read before it
Pointer(active_file, t) ==
    [file_id |-> active_file.id, offset |-> conc.thr[t].write_offset]

\* a put whose append and index update are one step
CPutWriteIndexed(t) ==
    /\ conc.thr[t].pc = "write"
    /\ \E w \in {WriteEntry([code |-> "Ok", s |-> Current], EncodedOf(t),
                            Nominal(Len(EncodedOf(t))))} :
          /\ active' = w.s.active
          /\ fs' = w.s.fs
          /\ index' = BTreePut(index, KeyC, Pointer(w.s.active, t))
          /\ conc' = [conc EXCEPT !.lock = Released(@, "active", t),
                                  !.thr[t].pc = "index_lock",
                                  !.thr[t].pos = Pointer(w.s.active, t),
                                  !.indexed = conc.thr[t].val]
    /\ UNCHANGED <<config, older, created, ghostVars, otherVars>>

\* db.rs:93-103 : write the entry, return its position and drop the guard of
\* the active file
CPutWrite(t) ==
    /\ conc.thr[t].pc = "write"
    /\ \E w \in {WriteEntry([code |-> "Ok", s |-> Current], EncodedOf(t),
                            Nominal(Len(EncodedOf(t))))} :
          /\ active' = w.s.active
          /\ fs' = w.s.fs
          /\ conc' = [conc EXCEPT !.lock = Released(@, "active", t),
                                  !.thr[t].pc = "index_lock",
                                  !.thr[t].pos = Pointer(w.s.active, t)]
    /\ UNCHANGED <<config, older, index, created, ghostVars, otherVars>>

\* btree.rs:29 : indices.put takes the write lock of the tree
CPutIndexLock(t) ==
    /\ conc.thr[t].pc = "index_lock"
    /\ CanWrite("index")
    /\ conc' = [conc EXCEPT !.lock = WithWriter(@, "index", t),
                            !.thr[t].pc = "index"]
    /\ UNCHANGED <<engineVars, otherVars>>

\* btree.rs:35-36, db.rs:41-42 : insert, drop the guard, return Ok
CPutIndex(t) ==
    /\ conc.thr[t].pc = "index"
    /\ index' = BTreePut(index, KeyC, conc.thr[t].pos)
    /\ conc' = [conc EXCEPT !.lock = Released(@, "index", t),
                            !.thr[t].pc = "done",
                            !.thr[t].code = UpdateCode(TRUE),
                            !.indexed = conc.thr[t].val]
    /\ UNCHANGED <<config, active, older, fs, created, ghostVars, otherVars>>

\* a thread calls get
CGetStart(t) ==
    /\ conc.thr[t].pc \in {"idle", "done"}
    /\ NextThread(t)
    /\ conc.calls < MaxCalls
    /\ conc' = [conc EXCEPT !.calls = @ + 1,
                            !.thr[t] = [IdleThread EXCEPT
                                           !.pc = "lookup_lock",
                                           !.op = "get"]]
    /\ UNCHANGED <<engineVars, otherVars>>

\* btree.rs:40 : indices.get takes the read lock of the tree
CGetLookupLock(t) ==
    /\ conc.thr[t].pc = "lookup_lock"
    /\ CanRead("index")
    /\ conc' = [conc EXCEPT !.lock = WithReader(@, "index", t),
                            !.thr[t].pc = "lookup"]
    /\ UNCHANGED <<engineVars, otherVars>>

\* btree.rs:44, db.rs:117-125 : look the key up and drop the guard; return
\* KeyNotFoundError when the tree has no position for it
CGetLookup(t) ==
    /\ conc.thr[t].pc = "lookup"
    /\ \E pos \in {BTreeGet(index, KeyC)} :
          conc' = [conc EXCEPT
                     !.lock = Released(@, "index", t),
                     !.thr[t].pc = IF LookupCode(pos) # "Ok" THEN "done"
                                   ELSE "lock_first",
                     !.thr[t].code = LookupCode(pos),
                     !.thr[t].pos = pos,
                     !.thr[t].expect = conc.indexed]
    /\ UNCHANGED <<engineVars, otherVars>>

\* db.rs:131 : take the first read lock
CGetLockFirst(t) ==
    /\ conc.thr[t].pc = "lock_first"
    /\ CanRead(GetLocks[1])
    /\ conc' = [conc EXCEPT !.lock = WithReader(@, GetLocks[1], t),
                            !.thr[t].pc = "lock_second"]
    /\ UNCHANGED <<engineVars, otherVars>>

\* db.rs:132 : take the second read lock
CGetLockSecond(t) ==
    /\ conc.thr[t].pc = "lock_second"
    /\ CanRead(GetLocks[2])
    /\ conc' = [conc EXCEPT !.lock = WithReader(@, GetLocks[2], t),
                            !.thr[t].pc = "read"]
    /\ UNCHANGED <<engineVars, otherVars>>

\* db.rs:135-157 : read and decode the entry, drop both guards, return
CGetRead(t) ==
    /\ conc.thr[t].pc = "read"
    /\ \E o \in {ReadEntry(conc.thr[t].pos, TRUE)} :
          conc' = [conc EXCEPT
                     !.lock = Released(Released(@, "older", t), "active", t),
                     !.thr[t].pc = "done",
                     !.thr[t].code = o.code,
                     !.thr[t].entry = o.entry]
    /\ UNCHANGED <<engineVars, otherVars>>

\* the steps of a call that has started
CStep(t) ==
    \/ CPutLockActive(t)
    \/ CPutLockOlder(t)
    \/ CPutRotate(t)
    \/ CPutWrite(t)
    \/ CPutIndexLock(t)
    \/ CPutIndex(t)
    \/ CGetLookupLock(t)
    \/ CGetLookup(t)
    \/ CGetLockFirst(t)
    \/ CGetLockSecond(t)
    \/ CGetRead(t)

InitConc ==
    /\ Init
    /\ config.data_file_size \in DataFileSizes
    /\ ~config.write_sync_strategy

NextConc == \E t \in 1..NThreads : CPutStart(t) \/ CGetStart(t) \/ CStep(t)

SpecConc == InitConc /\ [][NextConc]_vars

\* thread t holds lock l, as writer or as reader
Holds(t, l) == conc.lock[l].writer = t \/ t \in conc.lock[l].readers
\* the call of thread t has started and not returned
Running(t) == conc.thr[t].pc \notin {"idle", "done"}

\* C22: every path that holds both segment locks takes the lock of the active
\* file before the lock of older_data_files (rotation in put, and get), the
\* index lock is never held while a segment lock is taken, and no
\* interleaving of concurrent put and get calls reaches a state where every
\* running call is blocked on a lock.
C22_LockOrder ==
    /\ \A t \in 1..NThreads :
          /\ Holds(t, "older") => Holds(t, "active")
          /\ conc.thr[t].pc \in {"lock_active", "lock_first"}
                => \A l \in DOMAIN conc.lock : ~Holds(t, l)
          /\ conc.thr[t].pc \in {"lock_older", "lock_second"}
                => Holds(t, "active") /\ ~Holds(t, "older")
          /\ Holds(t, "index")
                => /\ conc.thr[t].pc \in {"index", "lookup"}
                   /\ ~Holds(t, "active")
                   /\ ~Holds(t, "older")
    /\ (\E t \in 1..NThreads : Running(t))
          => \E t \in 1..NThreads : ENABLED CStep(t)

\* a put holds both write locks in the middle of a rotation while a get
\* waits for the lock of the active file
C22_Witness ==
    \E t, u \in 1..NThreads :
        /\ conc.thr[t].pc = "rotate"
        /\ conc.lock["active"].writer = t
        /\ conc.lock["older"].writer = t
        /\ conc.thr[u].pc = "lock_first"
        /\ ~ENABLED CGetLockFirst(u)

\* C23 as stated: the write lock of the active file is held only while a
\* rotation seals the old file and installs the new one; a put that does not
\* rotate never holds it, so a get can hold the read lock while such a put
\* appends.
C23_SharedAppend ==
    \A t \in 1..NThreads :
        (conc.thr[t].pc = "write" /\ ~conc.thr[t].rotated)
            => conc.lock["active"].writer # t

\* C23 amended: every put, rotating or not, holds the write lock of the
\* active file from before the rotation test until its entry is written, and
\* no get holds the read lock meanwhile; the write lock of older_data_files
\* is held only during a rotation.
C23_ExclusiveAppend ==
    /\ \A t \in 1..NThreads :
          /\ conc.thr[t].pc \in {"lock_older", "rotate", "write"}
                => /\ conc.lock["active"].writer = t
                   /\ conc.lock["active"].readers = {}
          /\ conc.lock["older"].writer = t => conc.thr[t].pc = "rotate"
    /\ \A l \in DOMAIN conc.lock :
          conc.lock[l].writer # 0 => conc.lock[l].readers = {}

\* a put that does not rotate is about to write under the write lock while a
\* get waits for the read lock
C23_Witness ==
    \E t, u \in 1..NThreads :
        /\ conc.thr[t].pc = "write" /\ ~conc.thr[t].rotated
        /\ conc.lock["active"].writer = t
        /\ conc.thr[u].pc = "lock_first"
        /\ ~ENABLED CGetLockFirst(u)

\* C24: for concurrent puts on the same key, a get that finds the key
\* returns the value of the put that updated the index last before the
\* get's lookup, whichever record was appended to the log first.
C24_LastIndexedVisible ==
    \A t \in 1..NThreads :
        (conc.thr[t].pc = "done" /\ conc.thr[t].op = "get"
                                 /\ conc.thr[t].pos # NoPos)
            => /\ conc.thr[t].code = "Ok"
               /\ conc.thr[t].entry.val = conc.thr[t].expect

\* thread t has appended its record and has not updated the index yet
Appended(t) ==
    /\ conc.thr[t].op = "put"
    /\ conc.thr[t].pc \in {"index_lock", "index"}

\* C25: a put is not atomic: while a put is between the append of its record
\* and the update of the index, the record is already in the log and the
\* index does not point to it, so a get on the same key whose lookup happens
\* then finds the previous pointer, or none when the key had none.
C25_NotAtomic ==
    \A t \in 1..NThreads :
        Appended(t)
            => /\ \E p \in DOMAIN fs : InFile(fs, p, EncodedOf(t))
               /\ conc.thr[t].pos # NoPos
               /\ BTreeGet(index, KeyC) # conc.thr[t].pos
               /\ \A g \in 1..NThreads :
                     conc.thr[g].op = "get" => conc.thr[g].pos # conc.thr[t].pos

\* a get holds the lock of the tree and is about to look the key up while a
\* put that has appended its record waits for that lock: the get finds the
\* pointer of the previous put
C25_Witness ==
    \E t, g \in 1..NThreads :
        /\ Appended(t) /\ conc.thr[t].pc = "index_lock"
        /\ ~ENABLED CPutIndexLock(t)
        /\ conc.thr[g].op = "get" /\ conc.thr[g].pc = "lookup"
        /\ \E p \in DOMAIN fs : InFile(fs, p, EncodedOf(t))
        /\ BTreeGet(index, KeyC) # NoPos
        /\ BTreeGet(index, KeyC) # conc.thr[t].pos

\* err.rs : the codes of a failed open, write or sync of a data file
PersistenceCodes ==
    {"OpenDataFileFailed", "WriteDataFileFailed", "SyncDataFileFailed"}

\* the event of a failed I/O step and the code put returns for it
FailedEvents ==
    [open_failed |-> "OpenDataFileFailed", write_failed |-> "WriteDataFileFailed",
     sync_failed |-> "SyncDataFileFailed"]

\* C26: a put whose data file write, sync or open fails does nothing after
\* the failed step (no second write, no retry), returns the code of that
\* failure and leaves the index as it was; a put never writes twice, and it
\* changes the index only when it returns Ok.
C26_NoRetry ==
    [][PutCall =>
        LET ev == last'.events
            failed == {i \in DOMAIN ev : ev[i].ev \in DOMAIN FailedEvents}
        IN /\ \A i \in failed :
                 /\ i = Len(ev)
                 /\ last'.code = FailedEvents[ev[i].ev]
                 /\ index' = index
           /\ last'.code \in PersistenceCodes => failed # {}
           /\ Cardinality({i \in DOMAIN ev :
                             ev[i].ev \in {"write", "write_failed"}}) <= 1
           /\ index' # index => last'.code = "Ok"
    ]_vars

\* a put on a key the index holds failed at the write, at a sync or at an
\* open : the index still holds the pointer of the earlier put
C26_Witness ==
    /\ last.op = "put" /\ last.code \in PersistenceCodes
    /\ last.events # <<>>
    /\ last.events[Len(last.events)].ev \in DOMAIN FailedEvents
    /\ last.key \in DOMAIN index
    /\ last.key \in DOMAIN latest /\ latest[last.key].prev_ok

(***************************************************************************)
(* fio/file_io.rs : a FileIo of its own, written and read by its caller.   *)
(* The lock of the file is never poisoned (nothing panics while holding    *)
(* the write guard), so its error branches are not taken.                  *)
(***************************************************************************)
\* the buffers written : b"key1" and b"alpha"
FioBuffers == {Key1, Alpha}

\* what File::write returns for a buffer of len bytes : the whole length, a
\* shorter count, or an error
FioCounts(len) == {len, WriteFails} \cup ShortCounts(len)

\* FileIo::write
FioWrite ==
    /\ Len(fio.log) < MaxWrites
    /\ \E buf \in FioBuffers :
       \E n \in FioCounts(Len(buf)) :
          LET at == Len(fio.files[FioPath])
          IN IF n = WriteFails
             THEN fio' = [fio EXCEPT
                            !.last = [NoFioCall EXCEPT
                                         !.op = "write",
                                         !.code = "WriteDataFileFailed",
                                         !.buf = buf, !.offset = at,
                                         !.len = Len(buf)]]
             ELSE fio' = [fio EXCEPT
                            !.files = FileIoWrite(@, FioPath, buf, n),
                            !.log = Append(@, [NoFioCall EXCEPT
                                                  !.op = "write", !.buf = buf,
                                                  !.offset = at,
                                                  !.len = Len(buf), !.n = n]),
                            !.last = [NoFioCall EXCEPT
                                         !.op = "write", !.buf = buf,
                                         !.offset = at, !.len = Len(buf),
                                         !.n = n]]
    /\ UNCHANGED <<engineVars, codec, bt, conc, raft>>

\* the offsets a caller reads at : the sums of the lengths of the buffers
\* written, and the sums of the counts returned
RECURSIVE SumLen(_, _)
SumLen(log, i) == IF i = 0 THEN 0 ELSE SumLen(log, i - 1) + log[i].len

FioOffsets ==
    {SumLen(fio.log, i) : i \in 0..Len(fio.log)}
        \cup {fio.log[i].offset : i \in DOMAIN fio.log}

\* FileIo::read with a buffer of len bytes
FioRead ==
    /\ \E offset \in FioOffsets :
       \E len \in {Len(buf) : buf \in FioBuffers}
                    \cup {fio.log[i].n : i \in DOMAIN fio.log} :
       \E data \in {FileIoRead(fio.files, FioPath, offset, len)} :
          fio' = [fio EXCEPT
                    !.last = [NoFioCall EXCEPT
                                 !.op = "read", !.offset = offset,
                                 !.len = len, !.n = Len(data),
                                 !.data = data]]
    /\ UNCHANGED <<engineVars, codec, bt, conc, raft>>

InitFio ==
    /\ Init
    /\ config.data_file_size = 64
    /\ ~config.write_sync_strategy

NextFio == FioWrite \/ FioRead

SpecFio == InitFio /\ [][NextFio]_vars

\* the contents of the file of the FileIo
FioFile == fio.files[FioPath]

ELECTION_TIMEOUT == 300

\* lib.rs:57-73 : the channel is created and the task spawned; the caller
\* holds the sender
TimerSpawn(millis) ==
    [NoTimer EXCEPT !.state = "running", !.millis = millis, !.sender = "held"]

\* time passes while the task runs : the clock reaches c
TimerAt(tm, c) == [tm EXCEPT !.clock = c]

\* lib.rs:61-65 : the sleep is over
SleepReady(tm) == tm.state = "running" /\ tm.clock >= tm.millis

\* lib.rs:67-69 : the receiver has resolved, with a message or with the
\* error of a dropped sender
ReceiverReady(tm) == tm.state = "running" /\ tm.sender \in {"sent", "dropped"}

\* lib.rs:60-70 : the select takes a branch that is ready and the task ends
TimerElapsed(tm) == [tm EXCEPT !.state = "done", !.by = "elapsed"]
TimerCancelled(tm) ==
    [tm EXCEPT !.state = "done",
               !.by = IF tm.sender = "sent" THEN "cancelled" ELSE "closed"]

\* Sender::send : the message is queued while the receiver lives; after the
\* task ended the receiver is gone and send returns Err
TimerSend(tm) ==
    [tm EXCEPT !.sender = IF tm.state = "running" THEN "sent" ELSE "failed"]

\* the sender goes out of scope without a message
TimerDrop(tm) == [tm EXCEPT !.sender = "dropped"]

raftRest == <<engineVars, codec, bt, conc, fio>>

\* lib.rs:53 : a caller of its own calls timeout(millis); an earlier task of
\* this caller has ended and its sender is gone
Timeout ==
    /\ raft.timer.state \in {"none", "done"}
    /\ raft.timer.sender # "held"
    /\ \E millis \in 0..MaxMillis :
          raft' = [raft EXCEPT !.timer = TimerSpawn(millis),
                               !.last = [NoRaftCall EXCEPT !.op = "timeout"]]
    /\ UNCHANGED raftRest

\* one ms passes
Tick ==
    /\ raft.timer.state = "running"
    /\ raft.timer.clock < raft.timer.millis
    /\ raft' = [raft EXCEPT !.timer = TimerAt(@, @.clock + 1)]
    /\ UNCHANGED raftRest

\* the task is polled with the sleep over
TaskElapsed ==
    /\ SleepReady(raft.timer)
    /\ raft' = [raft EXCEPT !.timer = TimerElapsed(@)]
    /\ UNCHANGED raftRest

\* the task is polled with the receiver resolved
TaskCancelled ==
    /\ ReceiverReady(raft.timer)
    /\ raft' = [raft EXCEPT !.timer = TimerCancelled(@)]
    /\ UNCHANGED raftRest

\* lib.rs:103 : canceller.send(())
CancelSend ==
    /\ raft.timer.sender = "held"
    /\ raft' = [raft EXCEPT
                  !.timer = TimerSend(@),
                  !.last = [NoRaftCall EXCEPT
                               !.op = "send",
                               !.res = raft.timer.state = "running"]]
    /\ UNCHANGED raftRest

\* lib.rs:109 : the sender is not bound, or its binding ends
CancelDrop ==
    /\ raft.timer.sender = "held"
    /\ raft' = [raft EXCEPT !.timer = TimerDrop(@),
                            !.last = [NoRaftCall EXCEPT !.op = "drop"]]
    /\ UNCHANGED raftRest

InitTimer ==
    /\ Init
    /\ config.data_file_size = 64
    /\ ~config.write_sync_strategy

NextTimer ==
    Timeout \/ Tick \/ TaskElapsed \/ TaskCancelled \/ CancelSend \/ CancelDrop

SpecTimer == InitTimer /\ [][NextTimer]_vars

\* C28: the timeout task ends after exactly one of two events, a message
\* sent on the sender or the end of the duration; while no message was sent,
\* and so also when the caller dropped the sender, it ends only once the
\* duration has elapsed.
C28_CancelOrElapse ==
    raft.timer.state = "done"
        => /\ \/ raft.timer.by = "cancelled" /\ raft.timer.sender = "sent"
              \/ raft.timer.by = "elapsed" /\ raft.timer.clock >= raft.timer.millis
           /\ raft.timer.sender # "sent"
                 => raft.timer.clock >= raft.timer.millis

(***************************************************************************)
(* raft/node.rs : one node.  Its methods take &self or &mut self, so they  *)
(* run one at a time; start holds the node until it returns.  The election *)
(* timer is the task of lib.rs with the node's election timeout as its     *)
(* duration; while it runs the node does nothing, so time is taken to the  *)
(* deadline in one step.                                                   *)
(***************************************************************************)
\* node.rs:108-117
Statuses == {"Follower", "Candidate", "Leader"}

\* every status but Follower taken for a leader
IsLeaderNotFollower(status) == status # "Follower"

\* node.rs:120-122 : Status::is_leader
IsLeader(status) == status = "Leader"

\* a range that starts at 0
NextTimeoutsFromZero == 0..ELECTION_TIMEOUT

\* lib.rs:80-82 : the values next_timeout can return
NextTimeouts == (ELECTION_TIMEOUT \div 2)..ELECTION_TIMEOUT

\* node.rs:169-171 : the addresses of peers
Addrs == {"127.0.0.2:16", "127.0.0.3:16"}

\* node.rs:36-45 : Node::new with the value next_timeout returned
NewNode(election_timeout) ==
    [status |-> "Follower", current_term |-> 0,
     election_timeout |-> election_timeout, peers |-> {}]

\* Node::new
NodeNew ==
    /\ raft.pc = "none"
    /\ \E election_timeout \in NextTimeouts :
          raft' = [raft EXCEPT !.node = NewNode(election_timeout),
                               !.fresh = TRUE,
                               !.pc = "idle",
                               !.last = [NoRaftCall EXCEPT !.op = "new"]]
    /\ UNCHANGED raftRest

\* node.rs:63-65 : Node::is_leader
NodeIsLeader ==
    /\ raft.pc = "idle"
    /\ raft' = [raft EXCEPT
                  !.last = [NoRaftCall EXCEPT
                               !.op = "is_leader",
                               !.status = raft.node.status,
                               !.res = IsLeader(raft.node.status)]]
    /\ UNCHANGED raftRest

\* node.rs:120-122 : Status::is_leader on a status of its own
StatusIsLeader ==
    /\ raft.pc \in {"none", "idle"}
    /\ \E status \in Statuses :
          raft' = [raft EXCEPT
                     !.last = [NoRaftCall EXCEPT
                                  !.op = "status_is_leader",
                                  !.status = status,
                                  !.res = IsLeader(status)]]
    /\ UNCHANGED raftRest

\* node.rs:67-69 : Node::refresh_timeout
RefreshTimeout ==
    /\ raft.pc = "idle"
    /\ \E election_timeout \in NextTimeouts :
          raft' = [raft EXCEPT !.node.election_timeout = election_timeout,
                               !.fresh = FALSE,
                               !.last = [NoRaftCall EXCEPT !.op = "refresh"]]
    /\ UNCHANGED raftRest

\* node.rs:72-74 : Node::append_peers
AppendPeers ==
    /\ raft.pc = "idle"
    /\ \E new_peers \in SUBSET Addrs :
          raft' = [raft EXCEPT !.node.peers = @ \cup new_peers,
                               !.fresh = FALSE,
                               !.last = [NoRaftCall EXCEPT !.op = "append"]]
    /\ UNCHANGED raftRest

\* node.rs:76-86 : Node::start up to the return of timeout : the node is a
\* candidate of the next term and its election timer runs
Start ==
    /\ raft.pc = "idle"
    /\ raft.node.current_term < MaxTerm
    /\ raft' = [raft EXCEPT !.node.status = "Candidate",
                            !.node.current_term = @ + 1,
                            !.election = TimerSpawn(raft.node.election_timeout),
                            !.fresh = FALSE,
                            !.pc = "election",
                            !.last = [NoRaftCall EXCEPT !.op = "start"]]
    /\ UNCHANGED raftRest

\* node.rs:88-90 : gen_bool gave true : canceller.send(()).unwrap(), which
\* panics when the task has ended already
StartCancel ==
    /\ raft.pc = "election"
    /\ raft' = [raft EXCEPT
                  !.election = TimerSend(@),
                  !.pc = IF raft.election.state = "running"
                         THEN "await" ELSE "panicked"]
    /\ UNCHANGED raftRest

\* node.rs:91-93 : gen_bool gave false
StartKeep ==
    /\ raft.pc = "election"
    /\ raft' = [raft EXCEPT !.pc = "await"]
    /\ UNCHANGED raftRest

\* the election timeout passes
ElectionTick ==
    /\ raft.election.state = "running"
    /\ raft.election.clock < raft.election.millis
    /\ raft' = [raft EXCEPT !.election = TimerAt(@, @.millis)]
    /\ UNCHANGED raftRest

\* the election timer's task is polled with the sleep over
ElectionElapsed ==
    /\ SleepReady(raft.election)
    /\ raft' = [raft EXCEPT !.election = TimerElapsed(@)]
    /\ UNCHANGED raftRest

\* the election timer's task is polled with the receiver resolved
ElectionCancelled ==
    /\ ReceiverReady(raft.election)
    /\ raft' = [raft EXCEPT !.election = TimerCancelled(@)]
    /\ UNCHANGED raftRest

\* node.rs:94-100 : the task has ended : refresh the timeout, a candidate
\* turns follower, and the canceller goes with the return
StartJoin ==
    /\ raft.pc = "await"
    /\ raft.election.state = "done"
    /\ \E election_timeout \in NextTimeouts :
          raft' = [raft EXCEPT
                     !.node.election_timeout = election_timeout,
                     !.node.status = IF @ = "Candidate" THEN "Follower" ELSE @,
                     !.election = NoTimer,
                     !.pc = "idle"]
    /\ UNCHANGED raftRest

InitNode ==
    /\ Init
    /\ config.data_file_size = 64
    /\ ~config.write_sync_strategy

NextNode ==
    \/ NodeNew \/ NodeIsLeader \/ StatusIsLeader \/ RefreshTimeout
    \/ AppendPeers \/ Start \/ StartCancel \/ StartKeep \/ ElectionTick
    \/ ElectionElapsed \/ ElectionCancelled \/ StartJoin

SpecNode == InitNode /\ [][NextNode]_vars

\* C29: a node created by Node::new has status Follower, current term 0 and
\* no peers, and is not a leader; Status::is_leader is true only for Leader.
C29_NewNode ==
    /\ raft.fresh
          => /\ raft.node.status = "Follower"
             /\ raft.node.current_term = 0
             /\ raft.node.peers = {}
             /\ raft.last.op = "is_leader" => ~raft.last.res
    /\ raft.last.op \in {"is_leader", "status_is_leader"}
          => (raft.last.res <=> raft.last.status = "Leader")

\* Node::is_leader was called on a node that Node::new has just returned
C29_Witness ==
    /\ raft.fresh
    /\ raft.last.op = "is_leader"
    /\ raft.last.status = "Follower"
    /\ ~raft.last.res

\* C30: the election timeout of a node is always between ELECTION_TIMEOUT / 2
\* and ELECTION_TIMEOUT inclusive, 150 to 300 ms : for the value chosen by
\* Node::new and after every refresh_timeout, the one at the end of start
\* included.
C30_ElectionTimeout ==
    raft.pc # "none"
        => /\ raft.node.election_timeout >= ELECTION_TIMEOUT \div 2
           /\ raft.node.election_timeout <= ELECTION_TIMEOUT
           /\ raft.node.election_timeout \in 150..300

\* refresh_timeout has drawn the least value on a node that has run start
C30_Witness ==
    /\ raft.last.op = "refresh"
    /\ raft.node.current_term > 0
    /\ raft.node.election_timeout = ELECTION_TIMEOUT \div 2

\* the segment with id file_id : the active file or a file of older_data_files
Named(file_id) ==
    IF file_id = active.id THEN {active}
    ELSE IF file_id \in DOMAIN older THEN {older[file_id]} ELSE {}

\* C31: every pointer in the index names the active file or a file of
\* older_data_files, and at its offset in that file begins the whole
\* encoding of a record with the pointer's key.
C31_PointerValid ==
    \A k \in DOMAIN index :
        /\ Named(index[k].file_id) # {}
        /\ \A df \in Named(index[k].file_id) :
              \E v \in Vals :
                 FileIoRead(fs, df.path, index[k].offset, Len(Record(k, v)))
                    = Record(k, v)

\* the put of this step returned the error of a failed step of the rotation
RotationFailed ==
    /\ PutCall
    /\ last'.code \in {"SyncDataFileFailed", "OpenDataFileFailed"}
    /\ \A i \in DOMAIN last'.events :
          last'.events[i].ev \notin {"write", "write_failed"}

\* C32: the id of the active file is never a key of older_data_files, also
\* after a rotation that failed at the sync, at the open of the file for the
\* old id or at the open of the new file; such a rotation leaves the active
\* id and older_data_files as they were before the put.
C32_ActiveNotSealed ==
    [][/\ active'.id \notin DOMAIN older'
       /\ RotationFailed => (active' = active /\ older' = older)
    ]_vars

\* the threads of c whose put has appended its record and holds its pointer
Pointed(c) ==
    {t \in 1..NThreads : c.thr[t].op = "put" /\ c.thr[t].pos # NoPos}

\* the length of every record put by a thread : the key and the values have
\* one length
RecordLen == Len(Record(KeyC, ValOf(1)))

\* in c, with the active file a : no two pointers are equal, the records of
\* one file do not overlap, no record reaches beyond the cursor of the active
\* file, and a put about to write has read the cursor as it is now
Serial(c, a) ==
    /\ \A t, u \in Pointed(c) :
          t # u => /\ c.thr[t].pos # c.thr[u].pos
                   /\ c.thr[t].pos.file_id = c.thr[u].pos.file_id
                         => \/ c.thr[t].pos.offset + RecordLen <= c.thr[u].pos.offset
                            \/ c.thr[u].pos.offset + RecordLen <= c.thr[t].pos.offset
    /\ \A t \in Pointed(c) :
          c.thr[t].pos.file_id = a.id
             => c.thr[t].pos.offset + RecordLen <= a.offset
    /\ \A t \in 1..NThreads :
          c.thr[t].pc = "write" => c.thr[t].write_offset = a.offset

C34_SizeBudget ==
    last.op = "put" => active.offset <= config.data_file_size

\* C35: every put that returns Ok has moved the writing offset of the file
\* it wrote to by the encoded length of its entry, 3 + key length + value
\* length: a channel write that reports fewer bytes than the buffer holds
\* never ends in a successful put nor in an index entry.
C35_WholeRecord ==
    [][(PutCall /\ last'.code = "Ok")
          => /\ last'.len = 3 + Len(last'.key) + Len(last'.val)
             /\ \E i \in DOMAIN last'.events :
                   /\ last'.events[i].ev = "write"
                   /\ last'.events[i].n = last'.len
                   /\ active'.offset = last'.events[i].at + last'.len
    ]_vars

(***************************************************************************)
(* entry/mod.rs and db.rs : keys and values longer than a length byte      *)
(* holds, given to the codec and to Engine::put; the I/O is nominal.       *)
(***************************************************************************)
WideKeys == {KeyC, Bytes(U8Max + 1)}
WideVals == {<<>>, <<7>>, <<2, 1>>, Bytes(U8Max + 1)}

\* Entry::encode on an entry with such a key or value
WideEncode ==
    \E e \in [key : WideKeys, val : WideVals, typ : EntryTypes] :
        /\ codec' = [NoCodec EXCEPT !.op = "encode", !.entry = e,
                                    !.encoded = Encode(e)]
        /\ UNCHANGED <<engineVars, bt, conc, fio, raft>>

\* Engine::put with such a key or value
WidePut ==
    \E key \in WideKeys, value \in WideVals :
        \E env \in {e \in Envs(Len(Encode([key |-> key, val |-> value,
                                             typ |-> "Normal"]))) :
                        /\ e.sync_old /\ e.open_old /\ e.open_new /\ e.sync
                        /\ e.index
                        /\ e.write = 3 + Len(key) + Len(value)} :
            Put(key, value, env)

InitWide ==
    /\ Init
    /\ config.data_file_size = 64
    /\ ~config.write_sync_strategy

NextWide == WideEncode \/ EntryDecodeEncoded \/ WidePut

SpecWide == InitWide /\ [][NextWide]_vars

\* the key or the value of e is longer than a length byte holds
Long(e) == Len(e.key) > U8Max \/ Len(e.val) > U8Max

\* the length bytes of the encoding of codec.entry hold the lengths modulo
\* 256 and all the bytes of the key and of the value follow
Truncated ==
    /\ codec.encoded[1] = Len(codec.entry.key) % 256
    /\ codec.encoded[2] = Len(codec.entry.val) % 256
    /\ Len(codec.encoded) = 3 + Len(codec.entry.key) + Len(codec.entry.val)
    /\ SubSeq(codec.encoded, 3, 2 + Len(codec.entry.key)) = codec.entry.key
    /\ SubSeq(codec.encoded, 3 + Len(codec.entry.key),
              2 + Len(codec.entry.key) + Len(codec.entry.val)) = codec.entry.val

\* the last call was a put of a key or value longer than a length byte
\* holds, and it returned Ok with the key in the index
LongPutAccepted ==
    /\ last.code = "Ok"
    /\ last.len = 3 + Len(last.key) + Len(last.val)
    /\ last.key \in DOMAIN index /\ index[last.key] = last.pos

GetCall == last'.op = "get" /\ nputs' = nputs /\ last' # last

\* C37: a call of Engine::get, whatever it returns, leaves the index, the
\* active file's id and offset, the older files and the contents of every
\* file unchanged; no operation removes an id from the older files, and the
\* offset of an older file never changes.
C37_GetReadOnly ==
    [][/\ GetCall => /\ index' = index
                     /\ active'.id = active.id
                     /\ active'.offset = active.offset
                     /\ older' = older
                     /\ fs' = fs
       /\ DOMAIN older \subseteq DOMAIN older'
       /\ \A id \in DOMAIN older : older'[id].offset = older[id].offset]_vars

\* a get has returned a value read from one of two older files
C37_Witness ==
    /\ last.op = "get" /\ last.code = "Ok"
    /\ last.pos.file_id \in DOMAIN older
    /\ Cardinality(DOMAIN older) = 2

(***************************************************************************)
(* node.rs : Node::start under a runtime that keeps polling : the caller   *)
(* of start goes on after timeout() has returned, time passes while the    *)
(* election timer's task sleeps, and a task whose select has a ready       *)
(* branch is polled.                                                       *)
(***************************************************************************)
SpecNodeFair ==
    /\ InitNode
    /\ [][NextNode]_vars
    /\ WF_vars(StartCancel \/ StartKeep)
    /\ WF_vars(ElectionTick)
    /\ WF_vars(ElectionElapsed)
    /\ WF_vars(ElectionCancelled)
    /\ WF_vars(StartJoin)

\* Node::start is running
InStart == raft.pc \in {"election", "await"}

\* a step that enters Node::initial_election
StartCall == raft.pc = "idle" /\ raft'.pc = "election"

\* C38: every call of Node::start returns, whether the election timer was
\* cancelled or elapsed; the node is a Follower when start is called, a
\* Candidate while it runs and a Follower again when it has returned; each
\* call adds exactly 1 to the current term, which changes at no other step
\* and never decreases; and the node is never a Leader.
C38_StartTerminates ==
    /\ [](raft.node.status # "Leader")
    /\ [](InStart => raft.node.status = "Candidate")
    /\ [](raft.pc = "idle" => raft.node.status = "Follower")
    /\ [][/\ StartCall => raft'.node.current_term = raft.node.current_term + 1
          /\ (raft.pc # "none" /\ ~StartCall)
                => raft'.node.current_term = raft.node.current_term]_vars
    /\ InStart ~> (raft.pc = "idle" /\ raft.node.status = "Follower")

====
